---- MODULE Spec2Model ----
(***************************************************************************)
(* Model of search-proxy: the gRPC entry point FederatedSearch, its        *)
(* request validation, and the fan-out/fan-in orchestrator                 *)
(* SearchHandler.Search with one goroutine per platform                    *)
(* (fetchFromPlatform), the closer goroutine and the collection loop.      *)
(* Time is a discrete clock; contexts carry a deadline and an error.       *)
(***************************************************************************)
EXTENDS Integers, Sequences, FiniteSets, TLC

\* ---------------------------------------------------------------- bounds
\* platforms lists are enumerated in full up to this length
MaxPlatforms == 1
\* last clock value of one request
MaxTime == 2
\* most results one Fetch returns
MaxFetched == 1

\* ------------------------------------------------------ program constants
\* validateSearchRequest: len(req.Query) > 500
MaxQueryLen == 500
\* validateSearchRequest / Search: MaxResults > 100
MaxResultsCap == 100
\* config.Load: MAX_RESULTS_PER_PLATFORM default
MaxResultsPerPlatform == 20

Nil == "nil"
\* the nil error and the nil response of the gRPC entry point
NilStatus == [code |-> "nil", msg |-> ""]
NilResponse == [nil |-> TRUE]

\* keys of SearchHandler.fetchers after NewSearchHandler
Registry == {"github", "stackoverflow", "reddit"}
\* what fetcher.Name() returns for the fetcher stored under a registry key
FetcherName(key) == key
\* mutant: the default list misses a registered provider
DefaultPlatformsShort == <<"github", "stackoverflow">>
\* the literal default list in Search
DefaultPlatforms == <<"github", "stackoverflow", "reddit">>
\* the validPlatforms map of validateSearchRequest
validPlatforms == {"github", "stackoverflow", "reddit"}

\* the providers whose failures are remembered from one request to the
\* next: the one every kind of platforms list can name
Watched == {"github"}

\* platform names a caller puts in a list: two known ones and an unknown one
\* (stackoverflow is reached through the default list)
Names == {"github", "reddit", "gitlab"}

\* ServerConfig: ServerTimeout and PerAPITimeout, in clock ticks; the second
\* configuration has the per-API timeout above the server timeout.
\* PerformanceConfig: the circuit breaker is enabled, as by default, with a
\* threshold of one failure.
Configs ==
    { [ServerTimeout |-> 2, PerAPITimeout |-> 1,
       EnableCircuitBreaker |-> TRUE, CircuitBreakerThreshold |-> 1],
      [ServerTimeout |-> 2, PerAPITimeout |-> 3,
       EnableCircuitBreaker |-> TRUE, CircuitBreakerThreshold |-> 1] }

\* ------------------------------------------------------------- requests
\* A query is a string of `ascii` one-byte characters and `wide` two-byte
\* characters (UTF-8); Go's len() counts bytes.
Queries ==
    { [ascii |-> 0, wide |-> 0], [ascii |-> 1, wide |-> 0],
      [ascii |-> 500, wide |-> 0], [ascii |-> 501, wide |-> 0],
      [ascii |-> 0, wide |-> 251] }
CharCount(q) == q.ascii + q.wide
ByteLen(q) == q.ascii + 2 * q.wide

MaxResultsValues == {-1, 0, 1, 100, 101}

RECURSIVE SeqsUpTo(_, _)
SeqsUpTo(S, n) ==
    IF n = 0 THEN {<<>>}
    ELSE LET shorter == SeqsUpTo(S, n - 1)
         IN  shorter \cup { Append(s, x) : s \in {t \in shorter : Len(t) = n - 1}, x \in S }

\* every short list, and the two-name lists that repeat a name, mix a known
\* and an unknown name, or name two providers
PlatformLists ==
    SeqsUpTo(Names, MaxPlatforms)
        \cup { <<"github", "github">>, <<"github", "reddit">>,
               <<"github", "gitlab">>, <<"gitlab", "github">> }

BaseQuery == [ascii |-> 1, wide |-> 0]

\* the requests a caller sends: every query, every result cap and every
\* platforms list, each varied from the plain one-name request, and one
\* request for two providers with a cap of its own
Requests ==
    { [Query |-> q, MaxResults |-> 0, Platforms |-> p] :
        q \in Queries, p \in {<<"github">>, <<"gitlab">>} }
    \cup
    { [Query |-> BaseQuery, MaxResults |-> m, Platforms |-> p] :
        m \in MaxResultsValues, p \in {<<"github">>, <<"gitlab">>} }
    \cup
    { [Query |-> BaseQuery, MaxResults |-> 0, Platforms |-> p] : p \in PlatformLists }
    \cup
    { [Query |-> BaseQuery, MaxResults |-> 100, Platforms |-> <<"github", "reddit">>] }

\* direct callers of Search name their platforms
DirectRequests == { r \in Requests : r.Platforms # <<>> }

Range(s) == { s[k] : k \in 1..Len(s) }
Min(a, b) == IF a <= b THEN a ELSE b

\* s[1] + ... + s[k]
RECURSIVE SumTo(_, _)
SumTo(s, k) == IF k = 0 THEN 0 ELSE SumTo(s, k - 1) + s[k]

\* ----------------------------------------------------------- validation
\* mutant: only the first name of the platforms list is checked
validateFirstPlatformOnly(req) ==
    IF ByteLen(req.Query) = 0
    THEN [code |-> "InvalidArgument", msg |-> "query cannot be empty"]
    ELSE IF ByteLen(req.Query) > 500
    THEN [code |-> "InvalidArgument", msg |-> "query too long"]
    ELSE IF req.MaxResults < 0
    THEN [code |-> "InvalidArgument", msg |-> "max_results cannot be negative"]
    ELSE IF req.MaxResults > 100
    THEN [code |-> "InvalidArgument", msg |-> "max_results cannot exceed 100"]
    ELSE IF Len(req.Platforms) > 0 /\ req.Platforms[1] \notin {"github", "stackoverflow", "reddit"}
    THEN [code |-> "InvalidArgument", msg |-> "invalid platform"]
    ELSE [code |-> "nil", msg |-> ""]

\* Server.validateSearchRequest: the nil error or the InvalidArgument status
validateSearchRequest(req) ==
    IF ByteLen(req.Query) = 0
    THEN [code |-> "InvalidArgument", msg |-> "query cannot be empty"]
    ELSE IF ByteLen(req.Query) > MaxQueryLen
    THEN [code |-> "InvalidArgument", msg |-> "query too long"]
    ELSE IF req.MaxResults < 0
    THEN [code |-> "InvalidArgument", msg |-> "max_results cannot be negative"]
    ELSE IF req.MaxResults > MaxResultsCap
    THEN [code |-> "InvalidArgument", msg |-> "max_results cannot exceed 100"]
    ELSE IF \E k \in 1..Len(req.Platforms) : req.Platforms[k] \notin validPlatforms
    THEN [code |-> "InvalidArgument", msg |-> "invalid platform"]
    ELSE NilStatus

\* ------------------------------------------------------------- contexts
\* a context.Context: an optional deadline and the error Err() reports
Background == [hasDeadline |-> FALSE, deadline |-> 0, err |-> Nil]

\* mutant: the child's deadline ignores the parent's
WithTimeoutOwnDeadline(parent, d, t) ==
    [hasDeadline |-> TRUE,
     deadline |-> t + d,
     err |-> parent.err]

\* context.WithTimeout(parent, d) at time t: the earlier of the two deadlines;
\* a parent that is already done makes the child done with the same error
WithTimeout(parent, d, t) ==
    [hasDeadline |-> TRUE,
     deadline |-> IF parent.hasDeadline THEN Min(parent.deadline, t + d) ELSE t + d,
     err |-> parent.err]

\* the timer of a context firing once the clock reaches its deadline
Expire(ctx, t) ==
    IF ctx.err = Nil /\ ctx.hasDeadline /\ ctx.deadline <= t
    THEN [ctx EXCEPT !.err = "DeadlineExceeded"]
    ELSE ctx

\* cancel(): the first error sticks
CancelCtx(ctx) ==
    IF ctx.err = Nil THEN [ctx EXCEPT !.err = "Canceled"] ELSE ctx

\* --------------------------------------------------------------- models
\* models.SearchResult values a fetcher builds: n results of one platform
FetchedResults(name, n) ==
    [k \in 1..n |-> [Platform |-> name, Title |-> k, URL |-> k]]

\* SearchResult.ToProto: the pb.Result with the same field values
ToProto(r) == [Platform |-> r.Platform, Title |-> r.Title, Url |-> r.URL]

\* models.NewFetchResult(platform); task is the goroutine that owns it.
\* The Duration field is written once and read only by a log line, so no
\* response depends on it: it is kept apart, in the variable duration.
NewFetchResult(name, t) ==
    [Platform |-> name, Results |-> <<>>, Error |-> Nil, TimedOut |-> FALSE,
     task |-> t]

\* history entry of a task that has not reported
NotReported == [done |-> FALSE, err |-> Nil, n |-> 0, timedOut |-> FALSE]

\* a goroutine's locals; ctxAtReturn and globalAtReturn remember what its
\* own context and the context of Search reported when Fetch returned
NoTask ==
    [pc |-> "none", name |-> Nil, query |-> BaseQuery, maxResults |-> 0,
     startTime |-> 0, ctx |-> Background, results |-> <<>>, err |-> Nil,
     result |-> NilResponse, ctxAtReturn |-> Nil, globalAtReturn |-> Nil]

\* ---------------------------------------------------------------- state
VARIABLES
    config,            \* the loaded configuration (timeouts)
    pc,                \* the handler: idle, fanout, collect, done
    entry,             \* how Search was entered: grpc (FederatedSearch) or direct
    req,               \* the request being served
    now,               \* the clock
    callerCtx,         \* the context the caller passed in
    searchCtx,         \* the context Search runs under
    startTime,         \* Search: startTime
    platforms,         \* Search: platforms
    maxResults,        \* Search: maxResults
    chanCap,           \* capacity of resultsChan
    resultsChan,       \* buffered FetchResults
    chanClosed,        \* close(resultsChan) has run
    wg,                \* the WaitGroup counter
    idx,               \* position of the fan-out loop in platforms
    closer,            \* the closer goroutine: none, waiting, exited
    tasks,             \* the fetchFromPlatform goroutines, by list position
    allResults, platformsSuccess, platformsTimeout, platformsError,
    response, err,     \* what the entry point returned
    fetchCalls,        \* number of Fetch invocations of this request
    sent, consumed,    \* per task: sends on / receives from resultsChan
    reported,          \* per task: the outcome it sent (history)
    history,           \* watched providers that failed or timed out in an earlier request
    duration,          \* per task: FetchResult.Duration, tracked in TimedSpec only
    fetchers,          \* SearchHandler.fetchers: the keys of the registry map
    calls              \* the Search calls running side by side, used in ConcurrentSpec only

handlerVars == <<pc, entry, req, startTime, platforms, maxResults, idx>>
ctxVars == <<now, callerCtx, searchCtx>>
chanVars == <<chanCap, resultsChan, chanClosed, wg, closer>>
foldVars == <<allResults, platformsSuccess, platformsTimeout, platformsError>>
retVars == <<response, err>>
ghostVars == <<fetchCalls, sent, consumed, reported, history, duration>>
sharedVars == <<fetchers, calls>>
vars == <<config, handlerVars, ctxVars, chanVars, tasks, foldVars, retVars, ghostVars,
          sharedVars>>

\* the Search calls that overlap on one SearchHandler
Calls == {1, 2}

\* the locals of a Search call that has not started; collected remembers
\* which goroutines' outcomes its loop has received
IdleCall ==
    [pc |-> "idle", platforms |-> <<>>, idx |-> 1,
     chanCap |-> 0, resultsChan |-> <<>>, chanClosed |-> FALSE,
     wg |-> 0, closer |-> "none", tasks |-> <<>>,
     allResults |-> <<>>, platformsSuccess |-> <<>>,
     platformsTimeout |-> <<>>, platformsError |-> <<>>,
     response |-> NilResponse, collected |-> {}]

\* a goroutine of a call: chan and wg are the call whose resultsChan and
\* WaitGroup it was handed
NoCallTask ==
    [pc |-> "none", name |-> Nil, results |-> <<>>, err |-> Nil,
     result |-> NilResponse, chan |-> 0, wg |-> 0]

EmptyRequest == [Query |-> BaseQuery, MaxResults |-> 0, Platforms |-> <<>>]

Init ==
    /\ config \in Configs
    /\ pc = "idle"
    /\ entry = "none"
    /\ req = EmptyRequest
    /\ now = 0
    /\ callerCtx = Background
    /\ searchCtx = Background
    /\ startTime = 0
    /\ platforms = <<>>
    /\ maxResults = 0
    /\ chanCap = 0
    /\ resultsChan = <<>>
    /\ chanClosed = FALSE
    /\ wg = 0
    /\ idx = 1
    /\ closer = "none"
    /\ tasks = <<>>
    /\ allResults = <<>>
    /\ platformsSuccess = <<>>
    /\ platformsTimeout = <<>>
    /\ platformsError = <<>>
    /\ response = NilResponse
    /\ err = NilStatus
    /\ fetchCalls = 0
    /\ sent = <<>>
    /\ consumed = <<>>
    /\ duration = <<>>
    /\ reported = <<>>
    /\ history = {}
    /\ fetchers = Registry
    /\ calls = [c \in Calls |-> IdleCall]

\* ------------------------------------------------------- Search: set-up
\* Search: req.Platforms, or the default list when it is empty
ResolvePlatforms(r) ==
    IF Len(r.Platforms) = 0 THEN DefaultPlatforms ELSE r.Platforms

\* mutant: the cap is not checked against the upper limit
EffectiveMaxResultsNoUpper(r) ==
    IF r.MaxResults <= 0
    THEN MaxResultsPerPlatform
    ELSE r.MaxResults

\* Search: req.MaxResults, or the configured default when out of (0,100]
EffectiveMaxResults(r) ==
    IF r.MaxResults <= 0 \/ r.MaxResults > MaxResultsCap
    THEN MaxResultsPerPlatform
    ELSE r.MaxResults

\* mutant: the fan-in channel buffers a single FetchResult
SearchSetupSmallChan(r) ==
    /\ req' = r
    /\ startTime' = now'
    /\ platforms' = ResolvePlatforms(r)
    /\ maxResults' = EffectiveMaxResults(r)
    /\ chanCap' = 1
    /\ resultsChan' = <<>>
    /\ chanClosed' = FALSE
    /\ wg' = 0
    /\ idx' = 1
    /\ closer' = "none"
    /\ tasks' = [k \in 1..Len(ResolvePlatforms(r)) |-> NoTask]
    /\ allResults' = <<>>
    /\ platformsSuccess' = <<>>
    /\ platformsTimeout' = <<>>
    /\ platformsError' = <<>>
    /\ response' = NilResponse
    /\ err' = NilStatus
    /\ fetchCalls' = 0
    /\ sent' = [k \in 1..Len(ResolvePlatforms(r)) |-> 0]
    /\ consumed' = [k \in 1..Len(ResolvePlatforms(r)) |-> 0]
    /\ duration' = [k \in 1..Len(ResolvePlatforms(r)) |-> 0]
    /\ reported' = [k \in 1..Len(ResolvePlatforms(r)) |-> NotReported]
    /\ UNCHANGED history
    /\ pc' = "fanout"

\* Search up to the fan-out loop: locals, channel and WaitGroup
SearchSetup(r) ==
    /\ req' = r
    /\ startTime' = now'
    /\ platforms' = ResolvePlatforms(r)
    /\ maxResults' = EffectiveMaxResults(r)
    /\ chanCap' = Len(ResolvePlatforms(r))
    /\ resultsChan' = <<>>
    /\ chanClosed' = FALSE
    /\ wg' = 0
    /\ idx' = 1
    /\ closer' = "none"
    /\ tasks' = [k \in 1..Len(ResolvePlatforms(r)) |-> NoTask]
    /\ allResults' = <<>>
    /\ platformsSuccess' = <<>>
    /\ platformsTimeout' = <<>>
    /\ platformsError' = <<>>
    /\ response' = NilResponse
    /\ err' = NilStatus
    /\ fetchCalls' = 0
    /\ sent' = [k \in 1..Len(ResolvePlatforms(r)) |-> 0]
    /\ consumed' = [k \in 1..Len(ResolvePlatforms(r)) |-> 0]
    /\ duration' = [k \in 1..Len(ResolvePlatforms(r)) |-> 0]
    /\ reported' = [k \in 1..Len(ResolvePlatforms(r)) |-> NotReported]
    /\ UNCHANGED history
    /\ pc' = "fanout"

\* FederatedSearch returning the validation error: nothing else has run
Rejected(r, e) ==
    /\ req' = r
    /\ startTime' = 0
    /\ platforms' = <<>>
    /\ maxResults' = 0
    /\ chanCap' = 0
    /\ resultsChan' = <<>>
    /\ chanClosed' = FALSE
    /\ wg' = 0
    /\ idx' = 1
    /\ closer' = "none"
    /\ tasks' = <<>>
    /\ allResults' = <<>>
    /\ platformsSuccess' = <<>>
    /\ platformsTimeout' = <<>>
    /\ platformsError' = <<>>
    /\ response' = NilResponse
    /\ err' = e
    /\ fetchCalls' = 0
    /\ sent' = <<>>
    /\ consumed' = <<>>
    /\ duration' = <<>>
    /\ reported' = <<>>
    /\ UNCHANGED history
    /\ pc' = "done"

\* Server.FederatedSearch on request r: validate, derive the ServerTimeout
\* context and enter Search
FederatedSearch(r) ==
    /\ pc \in {"idle", "done"}
    /\ entry' = "grpc"
    /\ now' = 0
    /\ callerCtx' = Background
    /\ UNCHANGED <<config, sharedVars>>
    /\ IF validateSearchRequest(r) # NilStatus
       THEN /\ searchCtx' = Background
            /\ Rejected(r, validateSearchRequest(r))
       ELSE /\ searchCtx' = WithTimeout(Background, config.ServerTimeout, 0)
            /\ SearchSetup(r)

\* SearchHandler.Search called by a caller with its own context
Search(r) ==
    /\ pc \in {"idle", "done"}
    /\ entry' = "direct"
    /\ now' = 0
    /\ callerCtx' = Background
    /\ searchCtx' = Background
    /\ UNCHANGED <<config, sharedVars>>
    /\ SearchSetup(r)

\* mutant: an unknown name ends the fan-out loop (break, not continue)
FanOutAbortsOnUnknown ==
    /\ pc = "fanout"
    /\ idx <= Len(platforms)
    /\ IF platforms[idx] \in Registry
       THEN /\ idx' = idx + 1
            /\ wg' = wg + 1
            /\ tasks' = [tasks EXCEPT ![idx] =
                  [NoTask EXCEPT
                     !.pc = "fetching",
                     !.name = FetcherName(platforms[idx]),
                     !.query = req.Query,
                     !.maxResults = maxResults,
                     !.startTime = now,
                     !.result = NewFetchResult(FetcherName(platforms[idx]), idx),
                     !.ctx = WithTimeout(searchCtx, config.PerAPITimeout, now)]]
            /\ fetchCalls' = fetchCalls + 1
       ELSE /\ idx' = Len(platforms) + 1
            /\ UNCHANGED <<wg, tasks, fetchCalls>>
    /\ UNCHANGED <<config, sharedVars, pc, entry, req, startTime, platforms, maxResults,
                   ctxVars, chanCap, resultsChan, chanClosed, closer,
                   foldVars, retVars, sent, consumed, reported, history,
                   duration>>

\* mutant: a circuit breaker skips a provider that failed in an earlier
\* request
FanOutBreaker ==
    /\ pc = "fanout"
    /\ idx <= Len(platforms)
    /\ idx' = idx + 1
    /\ IF /\ platforms[idx] \in Registry
          /\ ~(config.EnableCircuitBreaker /\ config.CircuitBreakerThreshold <= 1
                /\ platforms[idx] \in history)
       THEN /\ wg' = wg + 1
            /\ tasks' = [tasks EXCEPT ![idx] =
                  [NoTask EXCEPT
                     !.pc = "fetching",
                     !.name = FetcherName(platforms[idx]),
                     !.query = req.Query,
                     !.maxResults = maxResults,
                     !.startTime = now,
                     !.result = NewFetchResult(FetcherName(platforms[idx]), idx),
                     !.ctx = WithTimeout(searchCtx, config.PerAPITimeout, now)]]
            /\ fetchCalls' = fetchCalls + 1
       ELSE UNCHANGED <<wg, tasks, fetchCalls>>
    /\ UNCHANGED <<config, sharedVars, pc, entry, req, startTime, platforms, maxResults,
                   ctxVars, chanCap, resultsChan, chanClosed, closer,
                   foldVars, retVars, sent, consumed, reported, history,
                   duration>>

\* mutant: the goroutine derives its context from context.Background()
FanOutDetached ==
    /\ pc = "fanout"
    /\ idx <= Len(platforms)
    /\ idx' = idx + 1
    /\ IF platforms[idx] \in Registry
       THEN /\ wg' = wg + 1
            /\ tasks' = [tasks EXCEPT ![idx] =
                  [NoTask EXCEPT
                     !.pc = "fetching",
                     !.name = FetcherName(platforms[idx]),
                     !.query = req.Query,
                     !.maxResults = maxResults,
                     !.startTime = now,
                     !.result = NewFetchResult(FetcherName(platforms[idx]), idx),
                     !.ctx = WithTimeout(Background, config.PerAPITimeout, now)]]
            /\ fetchCalls' = fetchCalls + 1
       ELSE UNCHANGED <<wg, tasks, fetchCalls>>
    /\ UNCHANGED <<config, sharedVars, pc, entry, req, startTime, platforms, maxResults,
                   ctxVars, chanCap, resultsChan, chanClosed, closer,
                   foldVars, retVars, sent, consumed, reported, history,
                   duration>>

\* one iteration of the fan-out loop: skip an unknown name, or wg.Add(1)
\* and the go statement; the goroutine runs to its call of fetcher.Fetch
\* (startTime, NewFetchResult, the per-API context)
FanOut ==
    /\ pc = "fanout"
    /\ idx <= Len(platforms)
    /\ idx' = idx + 1
    /\ IF platforms[idx] \in Registry
       THEN /\ wg' = wg + 1
            /\ tasks' = [tasks EXCEPT ![idx] =
                  [NoTask EXCEPT
                     !.pc = "fetching",
                     !.name = FetcherName(platforms[idx]),
                     !.query = req.Query,
                     !.maxResults = maxResults,
                     !.startTime = now,
                     !.result = NewFetchResult(FetcherName(platforms[idx]), idx),
                     !.ctx = WithTimeout(searchCtx, config.PerAPITimeout, now)]]
            /\ fetchCalls' = fetchCalls + 1
       ELSE UNCHANGED <<wg, tasks, fetchCalls>>
    /\ UNCHANGED <<config, sharedVars, pc, entry, req, startTime, platforms, maxResults,
                   ctxVars, chanCap, resultsChan, chanClosed, closer,
                   foldVars, retVars, sent, consumed, reported, history,
                   duration>>

\* mutant: the closer goroutine is started only when a task was dispatched
LaunchCloserIfTasks ==
    /\ pc = "fanout"
    /\ idx > Len(platforms)
    /\ closer' = IF wg > 0 THEN "waiting" ELSE "none"
    /\ pc' = "collect"
    /\ UNCHANGED <<config, sharedVars, entry, req, startTime, platforms, maxResults, idx,
                   ctxVars, chanCap, resultsChan, chanClosed, wg, tasks,
                   foldVars, retVars, ghostVars>>

\* the go func() { wg.Wait(); close(resultsChan) }() statement
LaunchCloser ==
    /\ pc = "fanout"
    /\ idx > Len(platforms)
    /\ closer' = "waiting"
    /\ pc' = "collect"
    /\ UNCHANGED <<config, sharedVars, entry, req, startTime, platforms, maxResults, idx,
                   ctxVars, chanCap, resultsChan, chanClosed, wg, tasks,
                   foldVars, retVars, ghostVars>>

\* mutant: the closer goroutine waits and exits without closing the channel
CloserNeverCloses ==
    /\ closer = "waiting"
    /\ wg = 0
    /\ chanClosed' = chanClosed
    /\ closer' = "exited"
    /\ UNCHANGED <<config, sharedVars, handlerVars, ctxVars, chanCap, resultsChan, wg,
                   tasks, foldVars, retVars, ghostVars>>

\* mutant: the closer goroutine closes the channel without wg.Wait()
CloserCloseEarly ==
    /\ closer = "waiting"
    /\ chanClosed' = TRUE
    /\ closer' = "exited"
    /\ UNCHANGED <<config, sharedVars, handlerVars, ctxVars, chanCap, resultsChan, wg,
                   tasks, foldVars, retVars, ghostVars>>

\* the closer goroutine: wg.Wait() returns at zero, then close(resultsChan)
CloserClose ==
    /\ closer = "waiting"
    /\ wg = 0
    /\ chanClosed' = TRUE
    /\ closer' = "exited"
    /\ UNCHANGED <<config, sharedVars, handlerVars, ctxVars, chanCap, resultsChan, wg,
                   tasks, foldVars, retVars, ghostVars>>

\* -------------------------------------------------- fetchFromPlatform
\* the errors a Fetch may return under context ctx: none, a transport or
\* decode failure, or the context's own error once the context is done
FetchErrors(ctx) ==
    {Nil, "transport"} \cup (IF ctx.err = Nil THEN {} ELSE {ctx.err})

\* fetcher.Fetch returns n results, or nil results and error e
FetchReturns(t, n, e) ==
    /\ t \in DOMAIN tasks
    /\ tasks[t].pc = "fetching"
    /\ e \in FetchErrors(tasks[t].ctx)
    /\ e # Nil => n = 0
    /\ tasks' = [tasks EXCEPT ![t] =
          [@ EXCEPT !.pc = "returned",
                    !.results = FetchedResults(tasks[t].name, n),
                    !.err = e,
                    !.ctxAtReturn = tasks[t].ctx.err,
                    !.globalAtReturn = searchCtx.err]]
    /\ UNCHANGED <<config, sharedVars, handlerVars, ctxVars, chanVars, foldVars, retVars,
                   fetchCalls, sent, consumed, reported, history>>

\* the return of Fetch, the Duration not tracked
FetchReturn(t, n, e) ==
    /\ FetchReturns(t, n, e)
    /\ UNCHANGED duration

\* the return of Fetch and result.Duration = time.Since(startTime)
FetchReturnTimed(t, n, e) ==
    /\ FetchReturns(t, n, e)
    /\ duration' = [duration EXCEPT ![t] = now - tasks[t].startTime]

\* mutant: the timeout is read off the error Fetch returned, not off the
\* task's context
ClassifyByErrorValue(result, results, e, ctx) ==
    IF e # Nil
    THEN [result EXCEPT !.Error = e,
                        !.TimedOut = (e = "DeadlineExceeded")]
    ELSE [result EXCEPT !.Results = results]

\* mutant: a failed Fetch under a context that is done, for whatever
\* reason, counts as a timeout
ClassifyAnyDoneAsTimeout(result, results, e, ctx) ==
    IF e # Nil
    THEN [result EXCEPT !.Error = e,
                        !.TimedOut = (ctx.err # Nil)]
    ELSE [result EXCEPT !.Results = results]

\* the if err != nil { ... } else { ... } of fetchFromPlatform: the
\* FetchResult built from Fetch's return and the context's error now
Classify(result, results, e, ctx) ==
    IF e # Nil
    THEN [result EXCEPT !.Error = e,
                        !.TimedOut = (ctx.err = "DeadlineExceeded")]
    ELSE [result EXCEPT !.Results = results]

\* mutant: a goroutine whose Fetch failed returns without sending
TaskReportSkipsErrors(t) ==
    /\ t \in DOMAIN tasks
    /\ tasks[t].pc = "returned"
    /\ chanClosed \/ Len(resultsChan) < chanCap
    /\ IF chanClosed
       THEN /\ tasks' = [tasks EXCEPT ![t] = [@ EXCEPT !.pc = "panic"]]
            /\ UNCHANGED <<resultsChan, sent, wg, reported>>
       ELSE /\ tasks' = [tasks EXCEPT ![t] =
                 [NoTask EXCEPT !.pc = "exited", !.name = tasks[t].name]]
            /\ IF tasks[t].err # Nil
               THEN UNCHANGED <<resultsChan, sent, reported>>
               ELSE /\ resultsChan' = Append(resultsChan,
                          Classify(tasks[t].result, tasks[t].results,
                                   tasks[t].err, tasks[t].ctx))
                    /\ sent' = [sent EXCEPT ![t] = @ + 1]
                    /\ reported' = [reported EXCEPT ![t] =
                          [done |-> TRUE, err |-> Nil,
                           n |-> Len(tasks[t].results), timedOut |-> FALSE]]
            /\ wg' = wg - 1
    /\ UNCHANGED <<config, sharedVars, handlerVars, ctxVars, chanCap, chanClosed,
                   closer, foldVars, retVars, fetchCalls, consumed, history,
                   duration>>

\* mutant: a goroutine whose Fetch failed also puts its platform in
\* platformsError itself
TaskReportWritesList(t) ==
    /\ t \in DOMAIN tasks
    /\ tasks[t].pc = "returned"
    /\ chanClosed \/ Len(resultsChan) < chanCap
    /\ IF chanClosed
       THEN /\ tasks' = [tasks EXCEPT ![t] = [@ EXCEPT !.pc = "panic"]]
            /\ UNCHANGED <<resultsChan, sent, wg, reported, foldVars>>
       ELSE /\ tasks' = [tasks EXCEPT ![t] =
                 [NoTask EXCEPT !.pc = "exited", !.name = tasks[t].name]]
            /\ resultsChan' = Append(resultsChan,
                   Classify(tasks[t].result, tasks[t].results, tasks[t].err,
                            tasks[t].ctx))
            /\ sent' = [sent EXCEPT ![t] = @ + 1]
            /\ reported' = [reported EXCEPT ![t] =
                   LET fr == Classify(tasks[t].result, tasks[t].results,
                                      tasks[t].err, tasks[t].ctx)
                   IN  [done |-> TRUE, err |-> fr.Error, n |-> Len(fr.Results),
                        timedOut |-> fr.TimedOut]]
            /\ platformsError' = IF tasks[t].err # Nil
                                 THEN Append(platformsError, tasks[t].name)
                                 ELSE platformsError
            /\ UNCHANGED <<allResults, platformsSuccess, platformsTimeout>>
            /\ wg' = wg - 1
    /\ UNCHANGED <<config, sharedVars, handlerVars, ctxVars, chanCap, chanClosed,
                   closer, retVars, fetchCalls, consumed, history,
                   duration>>

\* the rest of the goroutine: classify the outcome, send it on resultsChan
\* (blocks while full, panics when closed), then the deferred cancel() and
\* wg.Done(); the goroutine's locals, its released context among them, are
\* gone when it has exited
TaskReport(t) ==
    /\ t \in DOMAIN tasks
    /\ tasks[t].pc = "returned"
    /\ chanClosed \/ Len(resultsChan) < chanCap
    /\ IF chanClosed
       THEN /\ tasks' = [tasks EXCEPT ![t] = [@ EXCEPT !.pc = "panic"]]
            /\ UNCHANGED <<resultsChan, sent, wg, reported>>
       ELSE /\ tasks' = [tasks EXCEPT ![t] =
                 [NoTask EXCEPT !.pc = "exited", !.name = tasks[t].name]]
            /\ resultsChan' = Append(resultsChan,
                   Classify(tasks[t].result, tasks[t].results, tasks[t].err,
                            tasks[t].ctx))
            /\ sent' = [sent EXCEPT ![t] = @ + 1]
            /\ reported' = [reported EXCEPT ![t] =
                   LET fr == Classify(tasks[t].result, tasks[t].results,
                                      tasks[t].err, tasks[t].ctx)
                   IN  [done |-> TRUE, err |-> fr.Error, n |-> Len(fr.Results),
                        timedOut |-> fr.TimedOut]]
            /\ wg' = wg - 1
    /\ UNCHANGED <<config, sharedVars, handlerVars, ctxVars, chanCap, chanClosed,
                   closer, foldVars, retVars, fetchCalls, consumed, history,
                   duration>>

\* ------------------------------------------------------------- fan-in
\* mutant: the error branch lacks its continue and falls into the success path
CollectNoContinue(acc, fr) ==
    LET a == IF fr.Error # Nil
             THEN IF fr.TimedOut
                  THEN [acc EXCEPT !.timeout = Append(@, fr.Platform)]
                  ELSE [acc EXCEPT !.error = Append(@, fr.Platform)]
             ELSE acc
    IN  [a EXCEPT
            !.success = Append(@, fr.Platform),
            !.results = @ \o [k \in 1..Len(fr.Results) |-> ToProto(fr.Results[k])]]

\* mutant: a timed-out outcome is logged but put in no list
CollectDropsTimeouts(acc, fr) ==
    IF fr.Error # Nil
    THEN IF fr.TimedOut
         THEN acc
         ELSE [acc EXCEPT !.error = Append(@, fr.Platform)]
    ELSE [acc EXCEPT
            !.success = Append(@, fr.Platform),
            !.results = @ \o [k \in 1..Len(fr.Results) |-> ToProto(fr.Results[k])]]

\* mutant: a failed outcome discards the results collected before it
CollectErrorResets(acc, fr) ==
    IF fr.Error # Nil
    THEN IF fr.TimedOut
         THEN [acc EXCEPT !.timeout = Append(@, fr.Platform), !.results = <<>>]
         ELSE [acc EXCEPT !.error = Append(@, fr.Platform), !.results = <<>>]
    ELSE [acc EXCEPT
            !.success = Append(@, fr.Platform),
            !.results = @ \o [k \in 1..Len(fr.Results) |-> ToProto(fr.Results[k])]]

\* mutant: a successful outcome's results go in front of those collected
CollectPrepends(acc, fr) ==
    IF fr.Error # Nil
    THEN IF fr.TimedOut
         THEN [acc EXCEPT !.timeout = Append(@, fr.Platform)]
         ELSE [acc EXCEPT !.error = Append(@, fr.Platform)]
    ELSE [acc EXCEPT
            !.success = Append(@, fr.Platform),
            !.results = [k \in 1..Len(fr.Results) |-> ToProto(fr.Results[k])] \o @]

\* the body of the range loop on one received FetchResult
Collect(acc, fr) ==
    IF fr.Error # Nil
    THEN IF fr.TimedOut
         THEN [acc EXCEPT !.timeout = Append(@, fr.Platform)]
         ELSE [acc EXCEPT !.error = Append(@, fr.Platform)]
    ELSE [acc EXCEPT
            !.success = Append(@, fr.Platform),
            !.results = @ \o [k \in 1..Len(fr.Results) |-> ToProto(fr.Results[k])]]

\* mutant: the loop starts receiving only when every goroutine has exited
ReceiveAfterAll ==
    /\ pc = "collect"
    /\ resultsChan # <<>>
    /\ wg = 0
    /\ LET fr == Head(resultsChan)
           acc == Collect([results |-> allResults, success |-> platformsSuccess,
                           timeout |-> platformsTimeout, error |-> platformsError],
                          fr)
       IN  /\ allResults' = acc.results
           /\ platformsSuccess' = acc.success
           /\ platformsTimeout' = acc.timeout
           /\ platformsError' = acc.error
           /\ consumed' = [consumed EXCEPT ![fr.task] = @ + 1]
           /\ UNCHANGED reported
    /\ resultsChan' = Tail(resultsChan)
    /\ UNCHANGED <<config, sharedVars, handlerVars, ctxVars, chanCap, chanClosed, wg,
                   closer, tasks, retVars, fetchCalls, sent, history,
                   duration>>

\* one iteration of for fetchResult := range resultsChan
Receive ==
    /\ pc = "collect"
    /\ resultsChan # <<>>
    /\ LET fr == Head(resultsChan)
           acc == Collect([results |-> allResults, success |-> platformsSuccess,
                           timeout |-> platformsTimeout, error |-> platformsError],
                          fr)
       IN  /\ allResults' = acc.results
           /\ platformsSuccess' = acc.success
           /\ platformsTimeout' = acc.timeout
           /\ platformsError' = acc.error
           /\ consumed' = [consumed EXCEPT ![fr.task] = @ + 1]
           /\ UNCHANGED reported
    /\ resultsChan' = Tail(resultsChan)
    /\ UNCHANGED <<config, sharedVars, handlerVars, ctxVars, chanCap, chanClosed, wg,
                   closer, tasks, retVars, fetchCalls, sent, history,
                   duration>>

\* mutant: Search returns an error when no provider succeeded
BuildResponseOrFail(results, success, timeout, error, elapsed, names) ==
    [response |->
        [Results |-> results,
         TotalCount |-> Len(results),
         PlatformsSuccess |-> success,
         PlatformsTimeout |-> timeout,
         PlatformsError |-> error,
         Metadata |-> [ResponseTimeMs |-> elapsed,
                       PlatformsQueried |-> Len(names)]],
     err |-> IF success = <<>> /\ Len(timeout) + Len(error) > 0
             THEN [code |-> "Unavailable", msg |-> "all platforms failed"]
             ELSE [code |-> "nil", msg |-> ""]]

\* mutant: the response time is the sum of the outcomes' durations
BuildResponseSumsDurations(results, success, timeout, error, elapsed, names) ==
    [response |->
        [Results |-> results,
         TotalCount |-> Len(results),
         PlatformsSuccess |-> success,
         PlatformsTimeout |-> timeout,
         PlatformsError |-> error,
         Metadata |-> [ResponseTimeMs |-> SumTo(duration, Len(duration)),
                       PlatformsQueried |-> Len(names)]],
     err |-> NilStatus]

\* the response Search builds and the nil error it returns with it
BuildResponse(results, success, timeout, error, elapsed, names) ==
    [response |->
        [Results |-> results,
         TotalCount |-> Len(results),
         PlatformsSuccess |-> success,
         PlatformsTimeout |-> timeout,
         PlatformsError |-> error,
         Metadata |-> [ResponseTimeMs |-> elapsed,
                       PlatformsQueried |-> Len(names)]],
     err |-> NilStatus]

\* FederatedSearch after Search returned: an error of Search becomes an
\* Internal status, a response is passed through
Forward(ret) ==
    IF ret.err # NilStatus
    THEN [response |-> NilResponse, err |-> [code |-> "Internal", msg |-> "search failed"]]
    ELSE ret

\* mutant: the loop also ends, and Search returns, when its context is done
ReturnOnDeadline ==
    /\ pc = "collect"
    /\ \/ resultsChan = <<>> /\ chanClosed
       \/ searchCtx.err # Nil
    /\ LET ret == BuildResponse(allResults, platformsSuccess, platformsTimeout,
                                platformsError, now - startTime, platforms)
           out == IF entry = "grpc" THEN Forward(ret) ELSE ret
       IN  /\ response' = out.response
           /\ err' = out.err
    /\ searchCtx' = IF entry = "grpc" THEN CancelCtx(searchCtx) ELSE searchCtx
    /\ history' = history \cup
          ((Range(platformsTimeout) \cup Range(platformsError)) \cap Watched)
    /\ pc' = "done"
    /\ UNCHANGED <<config, sharedVars, entry, req, startTime, platforms, maxResults, idx,
                   now, callerCtx, chanVars, tasks, foldVars,
                   fetchCalls, sent, consumed, reported, duration>>

\* the range loop ends on the closed, drained channel; Search builds the
\* response and returns; FederatedSearch cancels its context and returns
Return ==
    /\ pc = "collect"
    /\ resultsChan = <<>>
    /\ chanClosed
    /\ LET ret == BuildResponse(allResults, platformsSuccess, platformsTimeout,
                                platformsError, now - startTime, platforms)
           out == IF entry = "grpc" THEN Forward(ret) ELSE ret
       IN  /\ response' = out.response
           /\ err' = out.err
    /\ searchCtx' = IF entry = "grpc" THEN CancelCtx(searchCtx) ELSE searchCtx
    /\ history' = history \cup
          ((Range(platformsTimeout) \cup Range(platformsError)) \cap Watched)
    /\ pc' = "done"
    /\ UNCHANGED <<config, sharedVars, entry, req, startTime, platforms, maxResults, idx,
                   now, callerCtx, chanVars, tasks, foldVars,
                   fetchCalls, sent, consumed, reported, duration>>

\* ------------------------------------------------------- environment
\* the clock advances; every context whose deadline is reached is done.
\* LaunchCloser, CloserClose and Receive read neither the clock nor a
\* context, so they commute with a tick and are taken before it.
Tick ==
    /\ pc \in {"fanout", "collect"}
    /\ now < MaxTime
    /\ ~ENABLED LaunchCloser
    /\ ~ENABLED CloserClose
    /\ ~ENABLED Receive
    /\ now' = now + 1
    /\ callerCtx' = Expire(callerCtx, now + 1)
    /\ searchCtx' = Expire(searchCtx, now + 1)
    /\ tasks' = [k \in DOMAIN tasks |->
                    IF tasks[k].pc \in {"fetching", "returned"}
                    THEN [tasks[k] EXCEPT !.ctx = Expire(@, now + 1)]
                    ELSE tasks[k]]
    /\ UNCHANGED <<config, sharedVars, handlerVars, chanVars, foldVars, retVars, ghostVars>>

\* a direct caller of Search cancels the context it passed; the
\* cancellation reaches every context derived from it
CallerCancel ==
    /\ pc \in {"fanout", "collect"}
    /\ entry = "direct"
    /\ callerCtx.err = Nil
    /\ callerCtx' = CancelCtx(callerCtx)
    /\ searchCtx' = CancelCtx(searchCtx)
    /\ tasks' = [k \in DOMAIN tasks |->
                    IF tasks[k].pc \in {"fetching", "returned"}
                    THEN [tasks[k] EXCEPT !.ctx = CancelCtx(@)]
                    ELSE tasks[k]]
    /\ UNCHANGED <<config, sharedVars, handlerVars, now, chanVars, foldVars, retVars,
                   ghostVars>>

\* --------------------------------------------------------- specification
TaskIds == 1..3
FetchCounts == 0..MaxFetched
ErrorKinds == {Nil, "transport", "DeadlineExceeded", "Canceled"}

TaskStep(t) ==
    \/ \E n \in FetchCounts, e \in ErrorKinds : FetchReturn(t, n, e)
    \/ TaskReport(t)

HandlerStep == FanOut \/ LaunchCloser \/ Receive \/ Return

Next ==
    \/ \E r \in Requests : FederatedSearch(r)
    \/ \E r \in DirectRequests : Search(r)
    \/ FanOut
    \/ LaunchCloser
    \/ CloserClose
    \/ \E t \in TaskIds, n \in FetchCounts, e \in ErrorKinds : FetchReturn(t, n, e)
    \/ \E t \in TaskIds : TaskReport(t)
    \/ Receive
    \/ Return
    \/ Tick
    \/ CallerCancel

Spec == Init /\ [][Next]_vars

\* the same program serving requests that name their platforms
LiveNext ==
    \/ \E r \in DirectRequests : FederatedSearch(r)
    \/ \E r \in DirectRequests : Search(r)
    \/ FanOut
    \/ LaunchCloser
    \/ CloserClose
    \/ \E t \in TaskIds, n \in FetchCounts, e \in ErrorKinds : FetchReturn(t, n, e)
    \/ \E t \in TaskIds : TaskReport(t)
    \/ Receive
    \/ Return
    \/ Tick
    \/ CallerCancel

\* the same program with the Duration of every outcome tracked
TimedNext ==
    \/ \E r \in DirectRequests : FederatedSearch(r)
    \/ \E r \in DirectRequests : Search(r)
    \/ FanOut
    \/ LaunchCloser
    \/ CloserClose
    \/ \E t \in TaskIds, n \in FetchCounts, e \in ErrorKinds : FetchReturnTimed(t, n, e)
    \/ \E t \in TaskIds : TaskReport(t)
    \/ Receive
    \/ Return
    \/ Tick
    \/ CallerCancel

TimedSpec == Init /\ [][TimedNext]_vars

\* the Go scheduler runs every runnable goroutine, and every Fetch returns
\* (the fetchers' http.Client has a Timeout and the request carries ctx)
FairSpec ==
    /\ Init
    /\ [][LiveNext]_vars
    /\ WF_vars(HandlerStep)
    /\ WF_vars(CloserClose)
    /\ \A t \in TaskIds : WF_vars(TaskStep(t))

\* ------------------------------------------------- concurrent calls
\* Several Search calls on one SearchHandler. Each call has the locals of
\* Search; a goroutine holds the channel and the WaitGroup it was passed.
\* Clock and contexts are left out: what ctx.Err() says when a goroutine
\* classifies its outcome is an input of that step.
mainVars == <<config, handlerVars, ctxVars, chanVars, tasks, foldVars, retVars, ghostVars>>

\* the requests of overlapping calls: one provider, two providers, and a
\* request naming the same provider next to an unknown one
ConcurrentRequests ==
    { [Query |-> BaseQuery, MaxResults |-> 0, Platforms |-> p] :
        p \in {<<"github">>, <<"github", "reddit">>, <<"gitlab", "github">>} }

\* call c enters Search: platforms, a channel and a WaitGroup of its own
SearchOf(c, r) ==
    /\ calls[c].pc \in {"idle", "done"}
    /\ calls' = [calls EXCEPT ![c] =
          [IdleCall EXCEPT
              !.pc = "fanout",
              !.platforms = ResolvePlatforms(r),
              !.chanCap = Len(ResolvePlatforms(r)),
              !.tasks = [k \in 1..Len(ResolvePlatforms(r)) |-> NoCallTask]]]
    /\ UNCHANGED <<mainVars, fetchers>>

\* mutant: every call hands its goroutines the channel of the first call,
\* as if resultsChan were a field of the handler
FanOutSharedChanOf(c) ==
    /\ calls[c].pc = "fanout"
    /\ calls[c].idx <= Len(calls[c].platforms)
    /\ LET k == calls[c].idx
           platform == calls[c].platforms[k]
       IN  IF platform \in fetchers
           THEN calls' = [calls EXCEPT
                   ![c].tasks[k] =
                       [NoCallTask EXCEPT
                           !.pc = "fetching",
                           !.name = FetcherName(platform),
                           !.result = NewFetchResult(FetcherName(platform), <<c, k>>),
                           !.chan = 1,
                           !.wg = c],
                   ![c].wg = @ + 1,
                   ![c].idx = @ + 1]
           ELSE calls' = [calls EXCEPT ![c].idx = @ + 1]
    /\ UNCHANGED <<mainVars, fetchers>>

\* one iteration of call c's fan-out loop: the registry is read, and a
\* goroutine is started with c's own resultsChan and &wg
FanOutOf(c) ==
    /\ calls[c].pc = "fanout"
    /\ calls[c].idx <= Len(calls[c].platforms)
    /\ LET k == calls[c].idx
           platform == calls[c].platforms[k]
       IN  IF platform \in fetchers
           THEN calls' = [calls EXCEPT
                   ![c].tasks[k] =
                       [NoCallTask EXCEPT
                           !.pc = "fetching",
                           !.name = FetcherName(platform),
                           !.result = NewFetchResult(FetcherName(platform), <<c, k>>),
                           !.chan = c,
                           !.wg = c],
                   ![c].wg = @ + 1,
                   ![c].idx = @ + 1]
           ELSE calls' = [calls EXCEPT ![c].idx = @ + 1]
    /\ UNCHANGED <<mainVars, fetchers>>

\* call c starts its closer goroutine and enters the range loop
LaunchCloserOf(c) ==
    /\ calls[c].pc = "fanout"
    /\ calls[c].idx > Len(calls[c].platforms)
    /\ calls' = [calls EXCEPT ![c].closer = "waiting", ![c].pc = "collect"]
    /\ UNCHANGED <<mainVars, fetchers>>

\* call c's closer goroutine: wg.Wait() on c's WaitGroup, close of c's channel
CloserCloseOf(c) ==
    /\ calls[c].closer = "waiting"
    /\ calls[c].wg = 0
    /\ calls' = [calls EXCEPT ![c].chanClosed = TRUE, ![c].closer = "exited"]
    /\ UNCHANGED <<mainVars, fetchers>>

\* Fetch of goroutine k of call c returns n results, or an error
FetchReturnOf(c, k, n, e) ==
    /\ k \in DOMAIN calls[c].tasks
    /\ calls[c].tasks[k].pc = "fetching"
    /\ e \in {Nil, "transport"}
    /\ e # Nil => n = 0
    /\ calls' = [calls EXCEPT
          ![c].tasks[k].pc = "returned",
          ![c].tasks[k].results = FetchedResults(calls[c].tasks[k].name, n),
          ![c].tasks[k].err = e]
    /\ UNCHANGED <<mainVars, fetchers>>

\* goroutine k of call c classifies its outcome under a context whose
\* error is d, sends it on the channel it holds and calls Done on the
\* WaitGroup it holds
TaskReportOf(c, k, d) ==
    /\ k \in DOMAIN calls[c].tasks
    /\ calls[c].tasks[k].pc = "returned"
    /\ LET task == calls[c].tasks[k]
           fr == Classify(task.result, task.results, task.err,
                          [Background EXCEPT !.err = d])
       IN  /\ calls[task.chan].chanClosed
              \/ Len(calls[task.chan].resultsChan) < calls[task.chan].chanCap
           /\ IF calls[task.chan].chanClosed
              THEN calls' = [calls EXCEPT ![c].tasks[k].pc = "panic"]
              ELSE calls' = [calls EXCEPT
                      ![task.chan].resultsChan = Append(@, fr),
                      ![task.wg].wg = @ - 1,
                      ![c].tasks[k] =
                          [NoCallTask EXCEPT !.pc = "exited", !.name = task.name,
                                             !.chan = task.chan, !.wg = task.wg]]
    /\ UNCHANGED <<mainVars, fetchers>>

\* one iteration of call c's range loop over its own channel
ReceiveOf(c) ==
    /\ calls[c].pc = "collect"
    /\ calls[c].resultsChan # <<>>
    /\ LET fr == Head(calls[c].resultsChan)
           acc == Collect([results |-> calls[c].allResults,
                           success |-> calls[c].platformsSuccess,
                           timeout |-> calls[c].platformsTimeout,
                           error |-> calls[c].platformsError], fr)
       IN  calls' = [calls EXCEPT
              ![c].allResults = acc.results,
              ![c].platformsSuccess = acc.success,
              ![c].platformsTimeout = acc.timeout,
              ![c].platformsError = acc.error,
              ![c].collected = @ \cup {fr.task},
              ![c].resultsChan = Tail(@)]
    /\ UNCHANGED <<mainVars, fetchers>>

\* call c's loop ends on its closed, drained channel; c builds its
\* response (the elapsed time is not tracked here) and returns
ReturnOf(c) ==
    /\ calls[c].pc = "collect"
    /\ calls[c].resultsChan = <<>>
    /\ calls[c].chanClosed
    /\ calls' = [calls EXCEPT
          ![c].response =
              BuildResponse(calls[c].allResults, calls[c].platformsSuccess,
                            calls[c].platformsTimeout, calls[c].platformsError,
                            0, calls[c].platforms).response,
          ![c].pc = "done"]
    /\ UNCHANGED <<mainVars, fetchers>>

ConcurrentNext ==
    \/ \E c \in Calls, r \in ConcurrentRequests : SearchOf(c, r)
    \/ \E c \in Calls : FanOutOf(c)
    \/ \E c \in Calls : LaunchCloserOf(c)
    \/ \E c \in Calls : CloserCloseOf(c)
    \/ \E c \in Calls, k \in TaskIds, n \in FetchCounts, e \in ErrorKinds :
          FetchReturnOf(c, k, n, e)
    \/ \E c \in Calls, k \in TaskIds, d \in {Nil, "DeadlineExceeded"} :
          TaskReportOf(c, k, d)
    \/ \E c \in Calls : ReceiveOf(c)
    \/ \E c \in Calls : ReturnOf(c)

ConcurrentSpec == Init /\ [][ConcurrentNext]_vars

\* ------------------------------------------------------------ vocabulary
\* the goroutines the fan-out loop started for this request
Dispatched == { t \in DOMAIN tasks : tasks[t].pc # "none" }
DispatchedNames == { tasks[t].name : t \in Dispatched }
\* a response of Search has been returned to the caller
Responded == pc = "done" /\ response # NilResponse
\* the three platform lists of the response, as sets
SuccessSet == Range(response.PlatformsSuccess)
TimeoutSet == Range(response.PlatformsTimeout)
ErrorSet == Range(response.PlatformsError)
\* how many of the three lists name a platform
ListsNaming(name) ==
    Cardinality({ L \in {"s", "t", "e"} :
        \/ L = "s" /\ name \in SuccessSet
        \/ L = "t" /\ name \in TimeoutSet
        \/ L = "e" /\ name \in ErrorSet })

\* ---------------------------------------------------------------- C1
\* C1: once the global (ServerTimeout) deadline has elapsed, FederatedSearch
\* is not held in the fan-in loop: collection can stop without waiting for
\* an outcome that has not been sent, so the call returns whatever a
\* provider's Fetch is still doing.
DeadlineBound ==
    (entry = "grpc" /\ pc = "collect" /\ searchCtx.err = "DeadlineExceeded")
        => (ENABLED Receive \/ ENABLED Return)

\* ---------------------------------------------------------------- C2
\* C2: in every response of Search the three platform lists name only
\* dispatched providers, no name is in more than one list, and every
\* provider whose task reported is in exactly one list.
PartitionInvariant ==
    Responded =>
        /\ (SuccessSet \cup TimeoutSet \cup ErrorSet) \subseteq DispatchedNames
        /\ \A name \in DispatchedNames : ListsNaming(name) <= 1
        /\ \A t \in Dispatched : reported[t].done => ListsNaming(tasks[t].name) = 1

\* ---------------------------------------------------------------- C3
\* C3: every dispatched provider task sends exactly one FetchResult on the
\* fan-in channel and the collection loop consumes exactly that one: never
\* two, and eventually one, whatever the outcome of the Fetch.
OutcomeCardinality ==
    /\ [](\A t \in DOMAIN sent : sent[t] <= 1 /\ consumed[t] <= sent[t])
    /\ [](Responded => \A t \in Dispatched : sent[t] = 1 /\ consumed[t] = 1)
    /\ \A t \in TaskIds :
          (t \in Dispatched) ~> (t \in Dispatched /\ sent[t] = 1 /\ consumed[t] = 1)

\* a state in which two tasks have been consumed, one of them a timeout and
\* one a success
OutcomeCardinalityWitness ==
    /\ Responded
    /\ Cardinality(Dispatched) >= 2
    /\ \A t \in Dispatched : sent[t] = 1 /\ consumed[t] = 1
    /\ \E t \in Dispatched : reported[t].timedOut
    /\ \E t \in Dispatched : reported[t].err = Nil

\* ---------------------------------------------------------------- C4
\* number of positions of a list holding x
Occ(s, x) == Cardinality({ k \in 1..Len(s) : s[k] = x })
\* the tasks of a platform whose sent outcome satisfies a condition
Succeeded(t) == reported[t].done /\ reported[t].err = Nil
TimedOut(t) == reported[t].done /\ reported[t].err # Nil /\ reported[t].timedOut
Failed(t) == reported[t].done /\ reported[t].err # Nil /\ ~reported[t].timedOut

\* C4: the response holds exactly the results of the providers that
\* succeeded (each result once per successful task that returned it, none
\* from failed or timed-out tasks), totalCount is the number of results, and
\* each provider is listed in the bucket of its own outcome and no other.
GracefulDegradation ==
    Responded =>
        /\ response.TotalCount = Len(response.Results)
        /\ \A k \in 1..Len(response.Results) :
              /\ response.Results[k].Platform \in DispatchedNames
              /\ response.Results[k].Title \in 1..MaxFetched
        /\ \A name \in DispatchedNames : \A k \in 1..MaxFetched :
              Occ(response.Results, [Platform |-> name, Title |-> k, Url |-> k])
                = Cardinality({ t \in Dispatched :
                     tasks[t].name = name /\ Succeeded(t) /\ reported[t].n >= k })
        /\ \A name \in DispatchedNames :
              /\ Occ(response.PlatformsSuccess, name)
                   = Cardinality({ t \in Dispatched : tasks[t].name = name /\ Succeeded(t) })
              /\ Occ(response.PlatformsTimeout, name)
                   = Cardinality({ t \in Dispatched : tasks[t].name = name /\ TimedOut(t) })
              /\ Occ(response.PlatformsError, name)
                   = Cardinality({ t \in Dispatched : tasks[t].name = name /\ Failed(t) })

\* three providers: one fails, one returns results, one times out
GracefulDegradationWitness ==
    /\ Responded
    /\ Cardinality(DispatchedNames) = 3
    /\ \E t \in Dispatched : Succeeded(t) /\ reported[t].n = MaxFetched
    /\ \E t \in Dispatched : Failed(t)
    /\ \E t \in Dispatched : TimedOut(t)
    /\ response.TotalCount = MaxFetched

\* ---------------------------------------------------------------- C5
\* C5: whatever errors and timeouts the providers produce, Search returns a
\* response and a nil error; FederatedSearch returns an error only for a
\* request its validation rejects.
NoWholeRequestFailure ==
    pc = "done" =>
        /\ err # NilStatus =>
              /\ entry = "grpc"
              /\ validateSearchRequest(req) # NilStatus
              /\ Dispatched = {}
        /\ (entry = "direct" \/ validateSearchRequest(req) = NilStatus) =>
              /\ response # NilResponse
              /\ err = NilStatus

\* FederatedSearch returned although every provider failed, one by timeout
NoWholeRequestFailureWitness ==
    /\ Responded
    /\ entry = "grpc"
    /\ Cardinality(Dispatched) >= 2
    /\ \A t \in Dispatched : ~Succeeded(t)
    /\ \E t \in Dispatched : TimedOut(t)
    /\ \E t \in Dispatched : Failed(t)

\* ---------------------------------------------------------------- C6
\* C6: when no dispatched provider succeeds, the response has no results,
\* totalCount 0, an empty platformsSuccess, and names every dispatched
\* provider in platformsTimeout or platformsError.
AllProvidersFailing ==
    (Responded /\ Dispatched # {} /\ \A t \in Dispatched : ~Succeeded(t)) =>
        /\ response.Results = <<>>
        /\ response.TotalCount = 0
        /\ response.PlatformsSuccess = <<>>
        /\ \A t \in Dispatched : tasks[t].name \in (TimeoutSet \cup ErrorSet)
        /\ Len(response.PlatformsTimeout) + Len(response.PlatformsError)
             = Cardinality(Dispatched)

\* all three default providers failed, by error and by timeout
AllProvidersFailingWitness ==
    /\ Responded
    /\ Cardinality(Dispatched) = 3
    /\ \A t \in Dispatched : ~Succeeded(t)
    /\ \E t \in Dispatched : TimedOut(t)
    /\ \E t \in Dispatched : Failed(t)
    /\ response.Results = <<>>

\* ---------------------------------------------------------------- C7
\* the platforms FederatedSearch knows
KnownPlatforms == {"github", "stackoverflow", "reddit"}
NamesUnknownPlatform(r) ==
    \E k \in 1..Len(r.Platforms) : r.Platforms[k] \notin KnownPlatforms

\* C7: a FederatedSearch request naming a platform outside github,
\* stackoverflow, reddit is rejected with InvalidArgument: it returns no
\* response, no task is dispatched and no Fetch is invoked, also when the
\* other names of the list are valid.
UnknownPlatformRejection ==
    (entry = "grpc" /\ NamesUnknownPlatform(req)) =>
        /\ pc = "done"
        /\ err.code = "InvalidArgument"
        /\ response = NilResponse
        /\ Dispatched = {}
        /\ fetchCalls = 0

\* a rejected request whose first name is valid and whose second is not
UnknownPlatformRejectionWitness ==
    /\ entry = "grpc"
    /\ pc = "done"
    /\ Len(req.Platforms) = 2
    /\ req.Platforms[1] \in KnownPlatforms
    /\ req.Platforms[2] \notin KnownPlatforms
    /\ err.code = "InvalidArgument"

\* ---------------------------------------------------------------- C8
\* a request the specification accepts: 1..500 characters, a cap in
\* [0,100], known platforms only
ValidBySpec(r) ==
    /\ CharCount(r.Query) >= 1
    /\ CharCount(r.Query) <= MaxQueryLen
    /\ r.MaxResults >= 0
    /\ r.MaxResults <= MaxResultsCap
    /\ ~NamesUnknownPlatform(r)
\* FederatedSearch did not reject the request
Accepted == ~(pc = "done" /\ err # NilStatus)

\* C8: FederatedSearch accepts a request exactly when its query has 1 to
\* 500 characters, maxResults is in [0,100] and every platform is known; a
\* rejected request returns an error and invokes no provider.
RequestValidation ==
    entry = "grpc" =>
        /\ Accepted <=> ValidBySpec(req)
        /\ ~Accepted => (response = NilResponse /\ fetchCalls = 0)

\* ---------------------------------------------------------------- C9
\* C9: a request with an empty platforms list dispatches exactly one task
\* to every provider of the fetcher registry and to no other; the default
\* list and the registry keys coincide.
EmptyPlatformListDefault ==
    (entry = "grpc" /\ req.Platforms = <<>> /\ pc \in {"collect", "done"}) =>
        /\ Range(platforms) = Registry
        /\ DispatchedNames = Registry
        /\ \A name \in Registry :
              Cardinality({ t \in Dispatched : tasks[t].name = name }) = 1
        /\ fetchCalls = Cardinality(Registry)

\* the empty-list request has returned after fetching from three providers
EmptyPlatformListDefaultWitness ==
    /\ Responded
    /\ entry = "grpc"
    /\ req.Platforms = <<>>
    /\ Cardinality(Dispatched) = 3
    /\ response.Metadata.PlatformsQueried = 3

\* ---------------------------------------------------------------- C10
\* C10: in every response of Search, metadata.platformsQueried is the
\* number of provider tasks dispatched; names skipped as absent from the
\* registry are not counted.
QueriedCountsDispatched ==
    Responded => response.Metadata.PlatformsQueried = Cardinality(Dispatched)

\* ---------------------------------------------------------------- C11
\* the goroutines whose Fetch call or report is still ahead
InFlight == { t \in DOMAIN tasks : tasks[t].pc \in {"fetching", "returned"} }

\* C11: whenever the context Search runs under is done (its ServerTimeout
\* deadline fired or its caller cancelled it), the context of every provider
\* task still in flight is done too, with the same error; a task started
\* after that moment gets a context that is already done.
NestedCancellation ==
    searchCtx.err # Nil =>
        \A t \in InFlight :
            /\ tasks[t].ctx.err # Nil
            /\ searchCtx.err = "Canceled" => tasks[t].ctx.err \in {"Canceled", "DeadlineExceeded"}
            /\ searchCtx.err = "DeadlineExceeded" => tasks[t].ctx.err = "DeadlineExceeded"

\* the global deadline fired while a Fetch was under way whose own timeout
\* (PerAPITimeout above ServerTimeout) had not run out
NestedCancellationWitness ==
    /\ entry = "grpc"
    /\ searchCtx.err = "DeadlineExceeded"
    /\ config.PerAPITimeout > config.ServerTimeout
    /\ \E t \in InFlight :
          /\ tasks[t].pc = "fetching"
          /\ now < tasks[t].startTime + config.PerAPITimeout
          /\ tasks[t].ctx.err = "DeadlineExceeded"

\* ---------------------------------------------------------------- C12
\* goroutine t sends its outcome in this step
Reports(t) ==
    /\ t \in DOMAIN tasks
    /\ tasks[t].pc = "returned"
    /\ t \in DOMAIN reported'
    /\ reported'[t].done

\* C12: a provider whose Fetch was still running when the ServerTimeout
\* deadline fired (it returned with the context of Search already expired)
\* is reported as a timeout: the outcome its task sends, which the fan-in
\* loop files under the bucket of that outcome, is the timeout outcome.
TimeoutCompleteness ==
    [][\A t \in TaskIds :
          (Reports(t) /\ tasks[t].globalAtReturn = "DeadlineExceeded")
              => (reported'[t].err # Nil /\ reported'[t].timedOut)]_vars

\* ---------------------------------------------------------------- C13
\* the four accumulators of the fan-in loop before the first receive
EmptyFold == [results |-> <<>>, success |-> <<>>, timeout |-> <<>>, error |-> <<>>]

\* the fan-in loop run over a sequence of FetchResults
RECURSIVE FoldAll(_)
FoldAll(frs) ==
    IF frs = <<>> THEN EmptyFold
    ELSE Collect(FoldAll(SubSeq(frs, 1, Len(frs) - 1)), frs[Len(frs)])

\* the FetchResult task t sent, rebuilt from its outcome record
OutcomeOf(t) ==
    [Platform |-> tasks[t].name,
     Results |-> FetchedResults(tasks[t].name, reported[t].n),
     Error |-> reported[t].err,
     TimedOut |-> reported[t].timedOut,
     task |-> t]

\* every arrival order of the outcomes of a set of tasks
ArrivalOrders(S) ==
    { p \in [1..Cardinality(S) -> S] : \A t \in S : \E k \in 1..Cardinality(S) : p[k] = t }

\* two lists with the same elements, each the same number of times
SameBag(a, b) ==
    /\ Len(a) = Len(b)
    /\ \A x \in Range(a) \cup Range(b) : Occ(a, x) = Occ(b, x)

\* two folds that differ at most in the order of their lists
SameFold(f, g) ==
    /\ SameBag(f.success, g.success)
    /\ SameBag(f.timeout, g.timeout)
    /\ SameBag(f.error, g.error)
    /\ SameBag(f.results, g.results)

\* C13: folding the outcomes of a request in any two arrival orders gives
\* the same success, timeout and error membership and the same results as
\* a multiset; the response, built in the order the outcomes did arrive,
\* agrees with every one of them, totalCount included.
OrderInsensitiveFold ==
    Responded =>
        \A p \in ArrivalOrders(Dispatched) :
            LET f == FoldAll([k \in 1..Len(p) |-> OutcomeOf(p[k])])
            IN  /\ SameFold(f, [results |-> response.Results,
                                success |-> response.PlatformsSuccess,
                                timeout |-> response.PlatformsTimeout,
                                error |-> response.PlatformsError])
                /\ response.TotalCount = Len(f.results)
                /\ \A q \in ArrivalOrders(Dispatched) :
                      SameFold(f, FoldAll([k \in 1..Len(q) |-> OutcomeOf(q[k])]))

\* three outcomes arrived in an order other than the dispatch order: the
\* last provider's success first, a failure in between
OrderInsensitiveFoldWitness ==
    /\ Responded
    /\ platforms = DefaultPlatforms
    /\ response.PlatformsSuccess = <<"reddit", "github">>
    /\ Len(response.Results) >= 2
    /\ response.Results[1].Platform = "reddit"
    /\ response.Results[Len(response.Results)].Platform = "github"
    /\ Len(response.PlatformsTimeout) + Len(response.PlatformsError) = 1

\* ---------------------------------------------------------------- C14
\* the list positions the fan-out loop has passed
Passed == IF pc = "fanout" THEN 1..(idx - 1) ELSE 1..Len(platforms)

SentSuccess(o) == o.done /\ o.err = Nil /\ ~o.timedOut
SentTimeout(o) == o.done /\ o.err # Nil /\ o.timedOut
SentError(o) == o.done /\ o.err # Nil /\ ~o.timedOut

TimeoutOnlyIfDeadlineBeforeReturn ==
    [][\A t \in TaskIds :
          (Reports(t) /\ reported'[t].timedOut)
              => tasks[t].ctxAtReturn = "DeadlineExceeded"]_vars

\* ---------------------------------------------------------------- C17
\* the moment a task started at time s is cut off
EffectiveDeadline(s) ==
    IF searchCtx.hasDeadline
    THEN Min(s + config.PerAPITimeout, searchCtx.deadline)
    ELSE s + config.PerAPITimeout

\* C17: the deadline of every task in flight is the earlier of its start
\* plus PerAPITimeout and the global deadline, and the task's context is
\* expired from that moment on and not before.
EffectiveTaskDeadline ==
    \A t \in InFlight :
        /\ tasks[t].ctx.hasDeadline
        /\ tasks[t].ctx.deadline = EffectiveDeadline(tasks[t].startTime)
        /\ now >= tasks[t].ctx.deadline => tasks[t].ctx.err # Nil
        /\ tasks[t].ctx.err = "DeadlineExceeded" => now >= tasks[t].ctx.deadline
        /\ (entry = "grpc" /\ now < tasks[t].ctx.deadline) => tasks[t].ctx.err = Nil

\* two tasks in flight under one request: one cut off after PerAPITimeout
\* with global budget left, one started late and bounded by the global
\* deadline, short of its PerAPITimeout
EffectiveTaskDeadlineWitness ==
    /\ entry = "grpc"
    /\ \E t \in InFlight :
          /\ tasks[t].ctx.deadline = tasks[t].startTime + config.PerAPITimeout
          /\ tasks[t].ctx.deadline < searchCtx.deadline
          /\ tasks[t].ctx.err = "DeadlineExceeded"
    /\ \E t \in InFlight :
          /\ tasks[t].ctx.deadline = searchCtx.deadline
          /\ tasks[t].ctx.deadline < tasks[t].startTime + config.PerAPITimeout

\* ---------------------------------------------------------------- C18
\* C18: the fan-in channel has room for the outcome of every dispatched
\* task: the buffered FetchResults never exceed the capacity, and a task
\* that is about to send finds the channel open and not full, so its send
\* completes at once, whether or not the collector is receiving.
NoProducerBlocks ==
    /\ Len(resultsChan) <= chanCap
    /\ Cardinality(Dispatched) <= chanCap
    /\ Len(resultsChan) + Cardinality({ t \in Dispatched : sent[t] = 0 }) <= chanCap
    /\ \A t \in TaskIds :
          (t \in DOMAIN tasks /\ tasks[t].pc = "returned") =>
              /\ ~chanClosed
              /\ Len(resultsChan) < chanCap
              /\ ENABLED TaskReport(t)

\* two outcomes wait in the channel, unreceived, while a third task is
\* about to send
NoProducerBlocksWitness ==
    /\ Len(resultsChan) = 2
    /\ chanCap = 3
    /\ \E t \in DOMAIN tasks : tasks[t].pc = "returned"
    /\ \A t \in DOMAIN consumed : consumed[t] = 0

\* ---------------------------------------------------------------- C19
\* C19: for an accepted request, Search starts at most one task per
\* distinct provider: no two tasks of a request fetch from the same
\* provider, also when the platforms list repeats a name.
OneTaskPerProvider ==
    (entry = "grpc" /\ Accepted) =>
        /\ \A t1, t2 \in Dispatched : tasks[t1].name = tasks[t2].name => t1 = t2
        /\ fetchCalls <= Cardinality(Range(platforms))

\* ---------------------------------------------------------------- C20
\* the names of the list that the fetcher registry does not hold
UnknownNames == Range(platforms) \ Registry

\* C20: when Search is called with a list holding a name absent from the
\* registry, no task is started for that name, a task is started for every
\* known name of the list, and the call returns a response with a nil
\* error in which the unknown name is in none of the three lists.
GracefulSkip ==
    (UnknownNames # {} /\ pc \in {"collect", "done"}) =>
        /\ \A k \in 1..Len(platforms) :
              /\ platforms[k] \notin Registry =>
                    (tasks[k].pc = "none" /\ sent[k] = 0 /\ ~reported[k].done)
              /\ platforms[k] \in Registry =>
                    (k \in Dispatched /\ tasks[k].name = platforms[k])
        /\ DispatchedNames = Range(platforms) \cap Registry
        /\ pc = "done" =>
              /\ response # NilResponse
              /\ err = NilStatus
              /\ \A name \in UnknownNames : ListsNaming(name) = 0
              /\ Len(response.PlatformsSuccess) + Len(response.PlatformsTimeout)
                    + Len(response.PlatformsError) = Cardinality(Dispatched)

\* Search returned for the list [gitlab, github]: github alone was fetched
GracefulSkipWitness ==
    /\ Responded
    /\ entry = "direct"
    /\ platforms = <<"gitlab", "github">>
    /\ Dispatched = {2}
    /\ response.PlatformsSuccess = <<"github">>
    /\ response.TotalCount = MaxFetched

\* ---------------------------------------------------------------- C21
\* the cap the specification gives a request
CapBySpec(r) ==
    IF r.MaxResults \in 1..100 THEN r.MaxResults ELSE MaxResultsPerPlatform

\* C21: every Fetch of a request is called with the request's query text
\* and with one cap: the request's maxResults when it is in [1,100], the
\* configured default when it is 0, negative or above 100.
EffectiveResultCap ==
    /\ pc \in {"fanout", "collect"} => maxResults = CapBySpec(req)
    /\ \A t \in InFlight :
          /\ tasks[t].query = req.Query
          /\ tasks[t].maxResults = CapBySpec(req)
    /\ \A t1, t2 \in InFlight :
          /\ tasks[t1].query = tasks[t2].query
          /\ tasks[t1].maxResults = tasks[t2].maxResults

\* two Fetch calls under way with the cap the request asked for
EffectiveResultCapWitness ==
    /\ req.MaxResults = 100
    /\ Cardinality({ t \in InFlight : tasks[t].pc = "fetching" }) = 2
    /\ \A t \in InFlight : tasks[t].maxResults = 100

\* ---------------------------------------------------------------- C22
\* the collection loop takes the oldest buffered outcome in this step
Receives ==
    /\ pc = "collect"
    /\ pc' = "collect"
    /\ resultsChan # <<>>
    /\ resultsChan' = Tail(resultsChan)
\* Search returns in this step
Returns == pc = "collect" /\ pc' = "done"

NoHeadOfLineBlocking ==
    /\ \A t \in DOMAIN tasks :
          /\ tasks[t].pc = "fetching" => ENABLED FetchReturn(t, 0, Nil)
          /\ tasks[t].pc = "returned" => ENABLED TaskReport(t)
    /\ pc = "collect" /\ resultsChan # <<>> => ENABLED Receive

\* the outcome of the provider dispatched second has been collected while
\* the Fetch of the one dispatched first is still running
NoHeadOfLineBlockingWitness ==
    /\ pc = "collect"
    /\ 1 \in DOMAIN tasks /\ tasks[1].pc = "fetching"
    /\ 2 \in DOMAIN tasks /\ tasks[2].pc = "exited"
    /\ consumed[2] = 1
    /\ Len(platformsSuccess) + Len(platformsTimeout) + Len(platformsError) = 1

\* ---------------------------------------------------------------- C24
\* C24: when every goroutine is scheduled and every Fetch returns, a
\* Search that has started its fan-out returns a response; while the loop
\* waits with no goroutine left to send, the channel is closed or the
\* closer is about to close it.
Termination ==
    /\ [](pc = "collect" /\ wg = 0 => chanClosed \/ ENABLED CloserClose)
    /\ (pc \in {"fanout", "collect"}) ~> Responded

\* Search has returned after waiting for two providers, one of which
\* failed, and the closer goroutine has exited
TerminationWitness ==
    /\ Responded
    /\ Cardinality(Dispatched) = 2
    /\ \A t \in Dispatched : tasks[t].pc = "exited"
    /\ closer = "exited"
    /\ \E t \in Dispatched : reported[t].err = "transport"

\* ---------------------------------------------------------------- C25
\* what goroutine t alone holds: its locals and its FetchResult, without
\* the context it shares with its parent
Private(t) == [tasks[t] EXCEPT !.ctx = Background]

\* a step that keeps to the ownership of the goroutines' state
OwnedWrites ==
    /\ Cardinality({ t \in DOMAIN tasks : Private(t)' # Private(t) }) <= 1
    /\ foldVars' # foldVars => Receives /\ tasks' = tasks
    /\ \A t \in DOMAIN tasks : tasks[t].pc = "exited" => tasks'[t] = tasks[t]
    /\ \/ resultsChan' = resultsChan
       \/ resultsChan # <<>> /\ resultsChan' = Tail(resultsChan)
       \/ /\ Len(resultsChan') = Len(resultsChan) + 1
          /\ SubSeq(resultsChan', 1, Len(resultsChan)) = resultsChan

\* C25: while a Search is running, a step writes the private state of at
\* most one task; the collected results and the three platform lists
\* change only in a receive step of the collection loop, in which no task
\* state changes; a task that has sent its outcome and exited writes
\* nothing more; an outcome in the channel is not modified until received.
SingleWriter == [][(pc \in {"fanout", "collect"}) => OwnedWrites]_vars

\* the collector has folded one outcome, another waits in the channel and
\* a third task still holds its own FetchResult
SingleWriterWitness ==
    /\ pc = "collect"
    /\ Len(platformsSuccess) + Len(platformsTimeout) + Len(platformsError) = 1
    /\ Len(resultsChan) = 1
    /\ \E t \in DOMAIN tasks : tasks[t].pc = "returned"

\* ---------------------------------------------------------------- C26
\* C26: the start time of Search is not later than the start of any of
\* its tasks, and the response time in the metadata is the clock at the
\* return minus that start time; so it is at least the Duration of every
\* outcome collected, whatever the sum of those durations.
ElapsedWallClock ==
    /\ \A t \in InFlight : startTime <= tasks[t].startTime
    /\ Responded =>
          /\ response.Metadata.ResponseTimeMs = now - startTime
          /\ \A t \in Dispatched :
                /\ consumed[t] = 1
                /\ duration[t] <= response.Metadata.ResponseTimeMs

\* two providers ran side by side for the whole of the request: the
\* response time is the duration of each, half the sum of the two
ElapsedWallClockWitness ==
    /\ Responded
    /\ Cardinality(Dispatched) = 2
    /\ response.Metadata.ResponseTimeMs = MaxTime
    /\ \A t \in Dispatched : duration[t] = MaxTime
    /\ SumTo(duration, Len(duration)) = 2 * response.Metadata.ResponseTimeMs

\* ---------------------------------------------------------------- C27
\* a step of a running Search that respects the order of close: the
\* channel becomes closed only by the waiting closer goroutine, which then
\* exits for good, and once the closer has started no task is added
CloseOrder ==
    /\ chanClosed' /\ ~chanClosed => closer = "waiting" /\ closer' = "exited"
    /\ chanClosed => chanClosed' /\ closer' = "exited"
    /\ closer # "none" => { t \in DOMAIN tasks : tasks'[t].pc # "none" } = Dispatched

\* C27: the WaitGroup counts the tasks that have not yet called Done; the
\* closer goroutine starts only when the fan-out loop has made every Add;
\* the channel is closed once, and only when every dispatched task has
\* sent its outcome and exited; no task ever sends on a closed channel.
ChannelCloseSafety ==
    /\ [](wg = Cardinality(InFlight))
    /\ [](closer # "none" => idx > Len(platforms))
    /\ [](chanClosed =>
            /\ wg = 0
            /\ closer = "exited"
            /\ \A t \in Dispatched : tasks[t].pc = "exited" /\ sent[t] = 1)
    /\ [](\A t \in DOMAIN tasks : tasks[t].pc # "panic")
    /\ [][(pc \in {"fanout", "collect"}) => CloseOrder]_vars

\* the channel has just been closed behind the sends of two tasks whose
\* outcomes are still in it
ChannelCloseSafetyWitness ==
    /\ pc = "collect"
    /\ chanClosed
    /\ Len(resultsChan) = 2
    /\ Cardinality(Dispatched) = 2

\* ---------------------------------------------------------------- C28
\* C28: when Search has returned, every task it dispatched has exited, the
\* closer goroutine too, the channel is closed and empty, every outcome
\* sent has been received, and the three platform lists of the response
\* hold as many names as tasks were dispatched.
NoTaskOutlivesCall ==
    Responded =>
        /\ \A t \in Dispatched :
              tasks[t].pc = "exited" /\ sent[t] = 1 /\ consumed[t] = 1
        /\ wg = 0
        /\ closer = "exited"
        /\ chanClosed
        /\ resultsChan = <<>>
        /\ Len(response.PlatformsSuccess) + Len(response.PlatformsTimeout)
              + Len(response.PlatformsError) = Cardinality(Dispatched)

\* Search has returned after three tasks, one in each list, all exited
NoTaskOutlivesCallWitness ==
    /\ Responded
    /\ Cardinality(Dispatched) = 3
    /\ \A t \in Dispatched : tasks[t].pc = "exited"
    /\ Len(response.PlatformsSuccess) = 1
    /\ Len(response.PlatformsTimeout) = 1
    /\ Len(response.PlatformsError) = 1

\* ---------------------------------------------------------------- C29
\* task t sends the outcome of a Fetch that failed after the caller had
\* cancelled the context passed to Search
ReportsFailureAfterCancel(t) ==
    /\ Reports(t)
    /\ tasks[t].globalAtReturn = "Canceled"
    /\ tasks[t].err # Nil

\* C29: a provider whose Fetch failed after the caller cancelled is sent
\* as an error, not as a timeout, provided its own context was ended by
\* that cancellation, that is, its deadline had not passed before.
CancelIsNotTimeout ==
    [][\A t \in TaskIds :
          ReportsFailureAfterCancel(t) /\ tasks[t].ctxAtReturn = "Canceled"
              => SentError(reported'[t])]_vars

\* C29 as stated: every provider whose Fetch failed after the caller
\* cancelled is sent as an error, not as a timeout.
CancelIsNeverTimeout ==
    [][\A t \in TaskIds :
          ReportsFailureAfterCancel(t) => SentError(reported'[t])]_vars

\* the caller cancelled, the Fetch of a provider then failed with the
\* context's Canceled error, and the response lists it as an error
CancelIsNotTimeoutWitness ==
    /\ Responded
    /\ callerCtx.err = "Canceled"
    /\ response.PlatformsTimeout = <<>>
    /\ \E t \in Dispatched :
          /\ reported[t].err = "Canceled"
          /\ ~reported[t].timedOut
          /\ tasks[t].name \in Range(response.PlatformsError)

\* ---------------------------------------------------------------- C30
\* C30: when the fan-out loop has dispatched no task, the collection loop
\* never waits on a task: the counter is zero and the channel empty, and
\* either the closer can close the channel or Search can return; the
\* response it returns has no results, totalCount 0, three empty platform
\* lists and a nil error.
ZeroDispatch ==
    /\ pc = "collect" /\ Dispatched = {} =>
          /\ wg = 0
          /\ resultsChan = <<>>
          /\ ENABLED CloserClose \/ ENABLED Return
    /\ Responded /\ Dispatched = {} =>
          /\ response.Results = <<>>
          /\ response.TotalCount = 0
          /\ response.PlatformsSuccess = <<>>
          /\ response.PlatformsTimeout = <<>>
          /\ response.PlatformsError = <<>>
          /\ err = NilStatus

\* Search was called with names that are all absent from the registry and
\* has returned its empty response
ZeroDispatchWitness ==
    /\ Responded
    /\ entry = "direct"
    /\ platforms # <<>>
    /\ \A k \in 1..Len(platforms) : platforms[k] \notin Registry
    /\ Dispatched = {}
    /\ chanClosed
    /\ response.TotalCount = 0

\* ---------------------------------------------------------------- C31
\* the goroutines call c has started, and those of them that are running
StartedOf(c) == { k \in DOMAIN calls[c].tasks : calls[c].tasks[k].pc # "none" }
RunningOf(c) ==
    { k \in DOMAIN calls[c].tasks : calls[c].tasks[k].pc \in {"fetching", "returned"} }

\* the channel, the counter and the lists of call c hold nothing of
\* another call
OwnOutcomesOnly(c) ==
    /\ \A k \in StartedOf(c) :
          calls[c].tasks[k].chan = c /\ calls[c].tasks[k].wg = c
    /\ calls[c].wg = Cardinality(RunningOf(c))
    /\ \A i \in 1..Len(calls[c].resultsChan) :
          /\ calls[c].resultsChan[i].task[1] = c
          /\ calls[c].resultsChan[i].task[2] \in StartedOf(c)
    /\ calls[c].collected \subseteq { <<c, k>> : k \in StartedOf(c) }
    /\ \A k \in DOMAIN calls[c].tasks : calls[c].tasks[k].pc # "panic"

\* the response of a call that has returned accounts for its own
\* goroutines, one name each, and for no other
OwnResponse(c) ==
    calls[c].pc = "done" =>
        /\ calls[c].collected = { <<c, k>> : k \in StartedOf(c) }
        /\ Len(calls[c].response.PlatformsSuccess)
              + Len(calls[c].response.PlatformsTimeout)
              + Len(calls[c].response.PlatformsError) = Cardinality(StartedOf(c))
        /\ \A i \in 1..Len(calls[c].response.Results) :
              calls[c].response.Results[i].Platform
                  \in Range(calls[c].response.PlatformsSuccess)

\* C31: with several Search calls running on one handler, every goroutine
\* holds the channel and the WaitGroup of the call that started it, a
\* call's channel and response hold the outcomes of its own goroutines
\* only, all of them once it has returned, and the registry stays as
\* NewSearchHandler built it.
RequestIsolation ==
    /\ [](fetchers = Registry)
    /\ [][fetchers' = fetchers]_vars
    /\ [](\A c \in Calls : OwnOutcomesOnly(c) /\ OwnResponse(c))

\* two calls overlap on the same provider: the first has collected
\* github's failure and still waits for reddit, the second holds github's
\* success in its own channel
RequestIsolationWitness ==
    /\ calls[1].pc = "collect"
    /\ calls[2].pc = "collect"
    /\ calls[1].platforms = <<"github", "reddit">>
    /\ calls[1].platformsError = <<"github">>
    /\ calls[1].tasks[2].pc = "fetching"
    /\ Len(calls[2].resultsChan) = 1
    /\ calls[2].resultsChan[1].Platform = "github"
    /\ calls[2].resultsChan[1].Error = Nil

====
